---- MODULE Spec2Model ----
(***************************************************************************)
(* calldict: evaluation of call graphs stored in dictionaries and lists.   *)
(*                                                                         *)
(* Python objects are modelled as tagged tuples.  Strings are sequences of *)
(* one-character strings, so that the format-field syntax of a SharedValue *)
(* name is parsed character by character, as string.Formatter does.        *)
(* Dictionaries and lists have identity: they live in a heap (a sequence   *)
(* of objects, the identity being the index) and are referred to by        *)
(* <<"ref", id>>.  A dictionary keeps its items, <<key, value>> pairs, in   *)
(* insertion order.                                                        *)
(***************************************************************************)
EXTENDS Integers, Sequences, FiniteSets, TLC

VARIABLES
    heap,       \* every dict and list alive: the input tree, shared_data, outputs
    root,       \* the data the caller built, the argument of the first eval call
    result,     \* what the last eval call returned (None before, and when it raised)
    err,        \* "ok", or the exception that reached the caller of the last eval
    calls,      \* the calls data['func'](*args, **kwargs) performed so far, in order
    memo,       \* the memo of the last eval call, as it was when the call ended
    pc,         \* the caller's position: "start", "evaluated", "rebound", "done"
    input,      \* the heap as the caller built it (never changes)
    result1,    \* what the first eval call returned (None before it)
    skipper     \* the skipper argument of the first call (None: not passed)

vars == <<heap, root, result, err, calls, memo, pc, input, result1, skipper>>

----------------------------------------------------------------------------
(* Values *)

None == <<"none">>
PyBool(b) == <<"bool", b>>
PyInt(n) == <<"int", n>>
PyStr(s) == <<"str", s>>
Ref(i) == <<"ref", i>>
Fn(f) == <<"fn", f>>
Obj(o) == <<"obj", o>>
Tag(v) == v[1]
Val(v) == v[2]

\* f(x), x evaluated once
With(x, f(_)) == CHOOSE v \in {f(y) : y \in {x}} : TRUE

\* Results of operations that may raise: the value, or the exception's name.
Ok(v) == [err |-> "ok", val |-> v]
Raise(e) == [err |-> e, val |-> None]

\* The keys eval reads in an invocation node
kFunc == PyStr(<<"f", "u", "n", "c">>)
kArgs == PyStr(<<"a", "r", "g", "s">>)
kKwargs == PyStr(<<"k", "w", "a", "r", "g", "s">>)
kReturns == PyStr(<<"r", "e", "t", "u", "r", "n", "s">>)
kEvaluate == PyStr(<<"e", "v", "a", "l", "u", "a", "t", "e">>)

----------------------------------------------------------------------------
(* class SharedValue *)

\* SharedValue(name); the root shared value has name None
SharedValue(name) == <<"sv", name>>
shared == <<"svroot">>
IsSharedValue(v) == Tag(v) \in {"sv", "svroot"}

\* SharedValue.__getattr__
SharedValueGetattr(self, name) ==
    IF self = shared THEN SharedValue(name)
    ELSE SharedValue(Val(self) \o <<".">> \o name)

----------------------------------------------------------------------------
(* dict and list *)

IsDict(h, v) == Tag(v) = "ref" /\ h[Val(v)][1] = "dict"
IsList(h, v) == Tag(v) = "ref" /\ h[Val(v)][1] = "list"
Dict(items) == <<"dict", items>>
List(elems) == <<"list", elems>>
Items(h, v) == h[Val(v)][2]

Keys(items) == {items[i][1] : i \in DOMAIN items}
HasKey(items, k) == k \in Keys(items)
DictGet(items, k) == items[CHOOSE i \in DOMAIN items : items[i][1] = k][2]
DictGetDefault(items, k, d) == IF HasKey(items, k) THEN DictGet(items, k) ELSE d
\* d[k] = v: an existing key keeps its position, a new key goes last
DictSet(items, k, v) ==
    IF HasKey(items, k)
    THEN [i \in DOMAIN items |-> IF items[i][1] = k THEN <<k, v>> ELSE items[i]]
    ELSE Append(items, <<k, v>>)
DictWithout(items, k) == SelectSeq(items, LAMBDA it : it[1] # k)

\* The truth value Python gives an object
Truthy(h, v) ==
    CASE Tag(v) = "none" -> FALSE
      [] Tag(v) = "bool" -> Val(v)
      [] Tag(v) = "int" -> Val(v) # 0
      [] Tag(v) = "str" -> Val(v) # <<>>
      [] Tag(v) = "ref" -> Items(h, v) # <<>>
      [] OTHER -> TRUE

----------------------------------------------------------------------------
(* string.Formatter().get_field(field_name, [], shared_data), the call of   *)
(* eval that resolves a SharedValue                                         *)

Digits == {"0", "1"}
IsInteger(s) == s # <<>> /\ \A i \in DOMAIN s : s[i] \in Digits
RECURSIVE ToInteger(_)
ToInteger(s) ==
    IF s = <<>> THEN 0
    ELSE 10 * ToInteger(SubSeq(s, 1, Len(s) - 1)) + (IF s[Len(s)] = "1" THEN 1 ELSE 0)

\* The length of the longest prefix of s with no character of stop
RECURSIVE Span(_, _)
Span(s, stop) ==
    IF s = <<>> \/ Head(s) \in stop THEN 0 ELSE 1 + Span(Tail(s), stop)
Drop(s, n) == SubSeq(s, n + 1, Len(s))

\* Attributes of the opaque objects a context may hold (a module, a class):
\* object "m" has the one attribute b
Getattr(h, obj, name) ==
    CASE Tag(obj) = "obj" /\ name = <<"b">> -> Ok(PyStr(<<"o", "k">>))
      [] IsSharedValue(obj) -> Ok(SharedValueGetattr(obj, name))
      [] OTHER -> Raise("AttributeError")

\* obj[i], i an int when the index is all digits and a str otherwise
Getitem(h, obj, i) ==
    CASE IsDict(h, obj) ->
            IF HasKey(Items(h, obj), i)
            THEN Ok(DictGet(Items(h, obj), i))
            ELSE Raise("KeyError")
      [] IsList(h, obj) ->
            IF Tag(i) # "int" THEN Raise("TypeError")
            ELSE IF Val(i) + 1 \in DOMAIN Items(h, obj)
                 THEN Ok(Items(h, obj)[Val(i) + 1])
                 ELSE Raise("IndexError")
      [] Tag(obj) = "str" ->
            IF Tag(i) # "int" THEN Raise("TypeError")
            ELSE IF Val(i) + 1 \in DOMAIN Val(obj)
                 THEN Ok(PyStr(<<Val(obj)[Val(i) + 1]>>))
                 ELSE Raise("IndexError")
      [] OTHER -> Raise("TypeError")

\* The loop of get_field over the rest of the field name: ".name" is getattr,
\* "[index]" is obj[index]; the rest is parsed as the loop goes, so a syntax
\* error is raised only when the walk reaches it.
RECURSIVE FieldWalk(_, _, _)
FieldWalk(h, obj, rest) ==
    IF rest = <<>> THEN Ok(obj)
    ELSE IF Head(rest) = "."
    THEN LET n == Span(Tail(rest), {".", "["})
         IN  IF n = 0 THEN Raise("ValueError")          \* Empty attribute
             ELSE With(Getattr(h, obj, SubSeq(rest, 2, n + 1)), LAMBDA r :
                    IF r.err # "ok" THEN r
                    ELSE FieldWalk(h, r.val, Drop(rest, n + 1)))
    ELSE IF Head(rest) = "["
    THEN LET n == Span(Tail(rest), {"]"})
             name == SubSeq(rest, 2, n + 1)
             i == IF IsInteger(name) THEN PyInt(ToInteger(name)) ELSE PyStr(name)
         IN  IF n + 1 = Len(rest) THEN Raise("ValueError")    \* Missing ']'
             ELSE IF n = 0 THEN Raise("ValueError")           \* Empty attribute
             ELSE With(Getitem(h, obj, i), LAMBDA r :
                    IF r.err # "ok" THEN r
                    ELSE FieldWalk(h, r.val, Drop(rest, n + 2)))
    ELSE Raise("ValueError")        \* Only '.' or '[' may follow ']'

\* get_field(name, [], shared_data)[0]: the first part of the name is looked up
\* in args (empty) when it is an integer and in kwargs (shared_data) otherwise
get_field(h, name, shared_data) ==
    IF Tag(name) # "str" THEN Raise("TypeError")
    ELSE LET n == Span(Val(name), {".", "["})
             first == SubSeq(Val(name), 1, n)
         IN  IF IsInteger(first) THEN Raise("IndexError")
             ELSE IF ~HasKey(Items(h, shared_data), PyStr(first)) THEN Raise("KeyError")
             ELSE FieldWalk(h, DictGet(Items(h, shared_data), PyStr(first)),
                            Drop(Val(name), n))

\* SharedValue.name as a Python value
NameOf(sv) == IF sv = shared THEN None ELSE PyStr(Val(sv))

----------------------------------------------------------------------------
(* The callables a tree may hold.  They are the caller's, not calldict's:   *)
(* these stand for the ones the tests use.                                  *)

\* func(*args, **kwargs), in heap h: the heap after the call and what it
\* returned or raised
Apply(h, func, args, kwargs) ==
    LET same(r) == [heap |-> h, err |-> r.err, val |-> r.val]
    IN  CASE func = Fn("one") -> same(Ok(PyInt(1)))
          [] func = Fn("first") -> same(Ok(IF args = <<>> THEN None ELSE args[1]))
          [] func = Fn("kw") ->
                same(IF HasKey(kwargs, PyStr(<<"a">>))
                     THEN Ok(DictGet(kwargs, PyStr(<<"a">>))) ELSE Raise("KeyError"))
          [] func = Fn("list") ->
                IF kwargs # <<>> \/ Len(args) > 1 THEN same(Raise("TypeError"))
                ELSE IF args = <<>>
                THEN [heap |-> Append(h, List(<<>>)), err |-> "ok", val |-> Ref(Len(h) + 1)]
                ELSE IF IsList(h, args[1])
                THEN [heap |-> Append(h, List(Items(h, args[1]))), err |-> "ok",
                      val |-> Ref(Len(h) + 1)]
                ELSE same(Raise("TypeError"))
          [] func = Fn("ref") -> same(Ok(SharedValue(<<"x">>)))
          [] func = Fn("raise") -> same(Raise("Exception"))
          [] OTHER -> same(Raise("TypeError"))      \* the object is not callable

----------------------------------------------------------------------------
(* eval *)

\* The depth of nested eval calls at which Python raises RecursionError.
\* Python's limit is 1000 frames; here it is scaled to the size of the trees:
\* an evaluation that ends without it nests less deep than this.
RecursionLimit == 12

is_callable(h, data) == IsDict(h, data) /\ HasKey(Items(h, data), kFunc)

\* calldict.callable, the deprecated name eval still calls
callable(h, data) == is_callable(h, data)

\* The state eval works on, and what a call gives back: the state it leaves,
\* and the value returned (err = "ok") or the exception raised
State(r) == [heap |-> r.heap, calls |-> r.calls, memo |-> r.memo]
Return(st, v) ==
    [heap |-> st.heap, calls |-> st.calls, memo |-> st.memo, err |-> "ok", val |-> v]
Throw(st, e) ==
    [heap |-> st.heap, calls |-> st.calls, memo |-> st.memo, err |-> e, val |-> None]

\* data.items() of a dict, enumerate(data) of a list
ItemsOf(h, data) ==
    IF IsDict(h, data) THEN Items(h, data)
    ELSE [i \in DOMAIN Items(h, data) |-> <<PyInt(i - 1), Items(h, data)[i]>>]

\* The sort key of an item: 0 for a dict, 1 for a list, 2 for anything else
SortKey(h, x) == IF IsDict(h, x[2]) THEN 0 ELSE IF IsList(h, x[2]) THEN 1 ELSE 2

\* (a sort that leaves the items in the order of the container)
Unsorted(h, items) == items

\* sorted(items, key=...): stable, so items of equal key keep their order
Sorted(h, items) ==
    SelectSeq(items, LAMBDA x : SortKey(h, x) = 0)
    \o SelectSeq(items, LAMBDA x : SortKey(h, x) = 1)
    \o SelectSeq(items, LAMBDA x : SortKey(h, x) = 2)

\* y[k] = v, y a dict or a list of the heap
SetItem(h, y, k, v) ==
    [h EXCEPT ![y] = IF h[y][1] = "dict" THEN Dict(DictSet(h[y][2], k, v))
                     ELSE List([h[y][2] EXCEPT ![Val(k) + 1] = v])]

\* memo[d] = y
MemoSet(m, d, y) == [i \in DOMAIN m \cup {d} |-> IF i = d THEN y ELSE m[i]]

\* What `for v in x` iterates over (x the 'args' of an invocation node)
Iterate(h, x) ==
    CASE IsList(h, x) -> Ok(Items(h, x))
      [] IsDict(h, x) -> Ok([i \in DOMAIN Items(h, x) |-> Items(h, x)[i][1]])
      [] Tag(x) = "str" -> Ok([i \in DOMAIN Val(x) |-> PyStr(<<Val(x)[i]>>)])
      [] OTHER -> Raise("TypeError")

\* x.items() (x the 'kwargs' of an invocation node).  On a SharedValue the
\* attribute is another SharedValue, which cannot be called.
ItemsCall(h, x) ==
    CASE IsDict(h, x) -> Ok(Items(h, x))
      [] IsSharedValue(x) -> Raise("TypeError")
      [] OTHER -> Raise("AttributeError")

\* The targets of data['returns']
Targets(h, returns) == IF IsList(h, returns) THEN Items(h, returns) ELSE <<returns>>

\* (a store that keys shared_data by the target as given, a SharedValue
\* included, and not by its name)
RECURSIVE StoreReturnsRaw(_, _, _, _)
StoreReturnsRaw(h, shared_data, targets, r) ==
    IF targets = <<>> THEN [heap |-> h, err |-> "ok"]
    ELSE LET k == Head(targets)
         IN  IF Tag(k) = "ref" THEN [heap |-> h, err |-> "TypeError"]
             ELSE StoreReturnsRaw(SetItem(h, Val(shared_data), k, r), shared_data,
                                  Tail(targets), r)

\* for v in targets: shared_data[v.name if isinstance(v, SharedValue) else v] = r
RECURSIVE StoreReturns(_, _, _, _)
StoreReturns(h, shared_data, targets, r) ==
    IF targets = <<>> THEN [heap |-> h, err |-> "ok"]
    ELSE LET v == Head(targets)
             k == IF IsSharedValue(v) THEN NameOf(v) ELSE v
         IN  IF Tag(k) = "ref" THEN [heap |-> h, err |-> "TypeError"]   \* unhashable
             ELSE StoreReturns(SetItem(h, Val(shared_data), k, r), shared_data,
                               Tail(targets), r)

RECURSIVE eval(_, _, _, _)
RECURSIVE EvalItems(_, _, _, _, _)
RECURSIVE EvalArgs(_, _, _, _, _)
RECURSIVE EvalKwargs(_, _, _, _, _)

\* for k, v in sorted(...): y[k] = eval(v, shared_data=shared_data, memo=memo)
EvalItems(y, items, shared_data, st, depth) ==
    IF items = <<>> THEN Return(st, Ref(y))
    ELSE With(eval(items[1][2], shared_data, st, depth + 1), LAMBDA r :
            IF r.err # "ok" THEN r
            ELSE EvalItems(y, Tail(items), shared_data,
                           [State(r) EXCEPT !.heap = SetItem(r.heap, y, items[1][1], r.val)],
                           depth))

\* [eval(v, shared_data=shared_data, memo=memo) for v in ...]; val is the
\* sequence of the values
EvalArgs(vs, shared_data, st, depth, acc) ==
    IF vs = <<>> THEN Return(st, acc)
    ELSE With(eval(Head(vs), shared_data, st, depth + 1), LAMBDA r :
            IF r.err # "ok" THEN r
            ELSE EvalArgs(Tail(vs), shared_data, State(r), depth, Append(acc, r.val)))

\* dict([(k, eval(v, shared_data=shared_data, memo=memo)) for k, v in ...]); val
\* is the sequence of the items
EvalKwargs(kvs, shared_data, st, depth, acc) ==
    IF kvs = <<>> THEN Return(st, acc)
    ELSE With(eval(Head(kvs)[2], shared_data, st, depth + 1), LAMBDA r :
            IF r.err # "ok" THEN r
            ELSE EvalKwargs(Tail(kvs), shared_data, State(r), depth,
                            DictSet(acc, Head(kvs)[1], r.val)))

\* (a copy that keeps the 'evaluate' key)
WithEvaluateKey(items) == items

\* The dict eval returns for a node whose 'evaluate' is false
Unevaluated(items) == DictWithout(items, kEvaluate)

\* What `for v in data.get('args', [])` iterates over
ArgsOf(h, node) ==
    IF HasKey(node, kArgs) THEN Iterate(h, DictGet(node, kArgs)) ELSE Ok(<<>>)

\* data.get('kwargs', {}).items(): the keyword arguments before evaluation
KwargsOf(h, node) ==
    IF HasKey(node, kKwargs) THEN ItemsCall(h, DictGet(node, kKwargs)) ELSE Ok(<<>>)

\* if 'returns' in data: ...; return r (st the state after the call)
InvokeReturns(node, shared_data, st, r) ==
    IF ~HasKey(node, kReturns) THEN Return(st, r)
    ELSE With(StoreReturns(st.heap, shared_data,
                           Targets(st.heap, DictGet(node, kReturns)), r),
              LAMBDA s :
                IF s.err # "ok" THEN Throw([st EXCEPT !.heap = s.heap], s.err)
                ELSE Return([st EXCEPT !.heap = s.heap], r))

\* (a call that stores 'returns' in a finally clause: None is bound when the
\* callable raises)
InvokeCallFinally(data, node, shared_data, args, kwargs, f) ==
    IF \E i \in DOMAIN kwargs : Tag(kwargs[i][1]) # "str"
    THEN Throw(f, "TypeError")
    ELSE With(Apply(f.heap, f.val, args, kwargs), LAMBDA c :
         With([heap |-> c.heap, memo |-> f.memo,
               calls |-> IF Tag(f.val) # "fn" THEN f.calls
                         ELSE Append(f.calls, [node |-> Val(data), func |-> f.val,
                                               args |-> args, kwargs |-> kwargs,
                                               err |-> c.err, ret |-> c.val])],
              LAMBDA called :
                IF c.err # "ok"
                THEN With(InvokeReturns(node, shared_data, called, None), LAMBDA w :
                        Throw(State(w), c.err))
                ELSE IF ~IsSharedValue(c.val)
                THEN InvokeReturns(node, shared_data, called, c.val)
                ELSE With(Getitem(c.heap, shared_data, NameOf(c.val)), LAMBDA rr :
                        IF rr.err # "ok" THEN Throw(called, rr.err)
                        ELSE InvokeReturns(node, shared_data, called, rr.val))))

\* r = data['func'](*data['args'], **data['kwargs']) and what follows it; f is
\* the state after the evaluation of 'func', with the callable as its value
InvokeCall(data, node, shared_data, args, kwargs, f) ==
    IF \E i \in DOMAIN kwargs : Tag(kwargs[i][1]) # "str"
    THEN Throw(f, "TypeError")          \* keywords must be strings
    ELSE With(Apply(f.heap, f.val, args, kwargs), LAMBDA c :
         With([heap |-> c.heap, memo |-> f.memo,
               calls |-> IF Tag(f.val) # "fn" THEN f.calls
                         ELSE Append(f.calls, [node |-> Val(data), func |-> f.val,
                                               args |-> args, kwargs |-> kwargs,
                                               err |-> c.err, ret |-> c.val])],
              LAMBDA called :
                IF c.err # "ok" THEN Throw(called, c.err)
                ELSE IF ~IsSharedValue(c.val)
                THEN InvokeReturns(node, shared_data, called, c.val)
                ELSE With(Getitem(c.heap, shared_data, NameOf(c.val)), LAMBDA rr :
                        IF rr.err # "ok" THEN Throw(called, rr.err)
                        ELSE InvokeReturns(node, shared_data, called, rr.val))))

\* The evaluation of an invocation node (the code after the type dispatch);
\* node is data.copy()
Invoke(data, node, shared_data, st, depth) ==
    IF ~Truthy(st.heap, DictGetDefault(node, kEvaluate, PyBool(TRUE)))
    THEN Return([st EXCEPT !.heap = Append(st.heap, Dict(Unevaluated(node)))],
                Ref(Len(st.heap) + 1))
    ELSE With(ArgsOf(st.heap, node), LAMBDA argv :
         IF argv.err # "ok" THEN Throw(st, argv.err)
         ELSE With(EvalArgs(argv.val, shared_data, st, depth, <<>>), LAMBDA a :
         IF a.err # "ok" THEN a
         ELSE With(KwargsOf(a.heap, node), LAMBDA kwv :
         IF kwv.err # "ok" THEN Throw(a, kwv.err)
         ELSE With(EvalKwargs(kwv.val, shared_data, State(a), depth, <<>>), LAMBDA kw :
         IF kw.err # "ok" THEN kw
         ELSE With(eval(DictGet(node, kFunc), shared_data, State(kw), depth + 1), LAMBDA f :
         IF f.err # "ok" THEN f
         ELSE InvokeCall(data, node, shared_data, a.val, kw.val, f))))))

\* (a memo that is never found to hold the node)
MemoMiss(m, d) == FALSE

\* if d in memo
MemoHit(m, d) == d \in DOMAIN m

\* (an eval that looks every dict up in the memo before the dispatch, and
\* keeps in the memo what an invocation node returned)
evalMemoizing(data, shared_data, st, depth) ==
    IF depth > RecursionLimit THEN Throw(st, "RecursionError")
    ELSE IF (IsDict(st.heap, data) \/ IsList(st.heap, data)) /\ MemoHit(st.memo, Val(data))
    THEN Return(st, st.memo[Val(data)])
    ELSE IF callable(st.heap, data)
    THEN With(Invoke(data, Items(st.heap, data), shared_data, st, depth), LAMBDA r :
            IF r.err # "ok" THEN r
            ELSE [r EXCEPT !.memo = MemoSet(r.memo, Val(data), r.val)])
    ELSE IF IsDict(st.heap, data) \/ IsList(st.heap, data)
    THEN EvalItems(Len(st.heap) + 1, Sorted(st.heap, ItemsOf(st.heap, data)),
                   shared_data,
                   [st EXCEPT !.heap = Append(st.heap,
                                   IF IsDict(st.heap, data) THEN Dict(<<>>)
                                   ELSE List(Items(st.heap, data))),
                              !.memo = MemoSet(st.memo, Val(data),
                                               Ref(Len(st.heap) + 1))],
                   depth)
    ELSE IF IsSharedValue(data)
    THEN With(get_field(st.heap, NameOf(data), shared_data), LAMBDA r :
            IF r.err = "ok" THEN Return(st, r.val)
            ELSE IF r.err = "KeyError" THEN Return(st, data)
            ELSE Throw(st, r.err))
    ELSE Return(st, data)

\* eval(data, shared_data=shared_data, memo=memo), called at nesting depth
eval(data, shared_data, st, depth) ==
    IF depth > RecursionLimit THEN Throw(st, "RecursionError")
    ELSE IF callable(st.heap, data)
    THEN Invoke(data, Items(st.heap, data), shared_data, st, depth)
    ELSE IF IsDict(st.heap, data) \/ IsList(st.heap, data)
    THEN IF MemoHit(st.memo, Val(data)) THEN Return(st, st.memo[Val(data)])
         ELSE EvalItems(Len(st.heap) + 1, Sorted(st.heap, ItemsOf(st.heap, data)),
                        shared_data,
                        [st EXCEPT !.heap = Append(st.heap,
                                        IF IsDict(st.heap, data) THEN Dict(<<>>)
                                        ELSE List(Items(st.heap, data))),
                                   !.memo = MemoSet(st.memo, Val(data),
                                                    Ref(Len(st.heap) + 1))],
                        depth)
    ELSE IF IsSharedValue(data)
    THEN With(get_field(st.heap, NameOf(data), shared_data), LAMBDA r :
            IF r.err = "ok" THEN Return(st, r.val)
            ELSE IF r.err = "KeyError" THEN Return(st, data)
            ELSE Throw(st, r.err))
    ELSE Return(st, data)

----------------------------------------------------------------------------
(* The caller: it builds a tree and a shared_data, and calls eval.          *)

\* shared_data is the first object of the heap
SharedData == Ref(1)

sX == <<"x">>
sA == <<"a">>
sB == <<"b">>
kA == PyStr(sA)
kB == PyStr(sB)

\* An invocation node: 'func', then the optional keys (None: no such key)
Node(func, args, kwargs, returns, evaluate, a) ==
    Dict(<<<<kFunc, func>>>>
         \o (IF args = None THEN <<>> ELSE <<<<kArgs, args>>>>)
         \o (IF kwargs = None THEN <<>> ELSE <<<<kKwargs, kwargs>>>>)
         \o (IF returns = None THEN <<>> ELSE <<<<kReturns, returns>>>>)
         \o (IF evaluate = None THEN <<>> ELSE <<<<kEvaluate, evaluate>>>>)
         \o (IF a = None THEN <<>> ELSE <<<<kA, a>>>>))

\* The plain dicts and lists of two children out of cs
Plain(cs) ==
    {Dict(<<<<kA, v>>, <<kB, w>>>>) : v \in cs, w \in cs}
    \cup {List(<<v, w>>) : v \in cs, w \in cs}

\* The dicts and lists of one child out of cs
Single(cs) == {Dict(<<<<kA, v>>>>) : v \in cs} \cup {List(<<v>>) : v \in cs}

\* Trees of plain containers that share children and contain themselves, with
\* one invocation node (object 4) whose 'args' is object 5
Children == {Ref(i) : i \in 2..5} \cup {PyStr(sA), SharedValue(sX)}
PlainInputs ==
    {[heap |-> <<Dict(<<>>), o2, o3, Node(f, args, None, returns, None, None), List(<<v>>)>>,
      root |-> Ref(2)] :
        o2 \in Plain(Children), o3 \in Single(Children),
        f \in {Fn("first"), Fn("list")}, args \in {None, Ref(5)},
        returns \in {None, PyStr(sX)}, v \in Children}

\* An invocation node (object 2) of every shape: 'args' is object 3, 'kwargs'
\* is object 5, and object 4 is an invocation node nested in them
Funcs == {Fn("one"), Fn("first"), Fn("kw"), Fn("list"), Fn("ref"), Fn("raise"),
          SharedValue(sX), PyStr(sA), Ref(4)}
Returns == {None, PyStr(sX), SharedValue(sX), SharedValue(<<"x", ".", "a">>), Ref(3)}
NodeInputs ==
    {[heap |-> <<Dict(sd), Node(f, args, kwargs, returns, evaluate, a), List(<<v>>),
                 Node(g, None, None, r, None, None), Dict(<<<<kA, w>>>>)>>,
      root |-> Ref(2)] :
        sd \in {<<>>, <<<<PyStr(sX), PyStr(sB)>>>>},
        f \in Funcs, args \in {None, Ref(3)}, kwargs \in {None, Ref(5)},
        returns \in Returns, evaluate \in {None, PyBool(FALSE), PyBool(TRUE)},
        a \in {None, PyStr(sA)},
        v \in {PyStr(sA), SharedValue(sX), Ref(4)},
        g \in {Fn("one"), Fn("raise")}, r \in {None, PyStr(sX)},
        w \in {PyStr(sB), Ref(4)}}

\* A SharedValue alone, its name made of up to MaxSegments pieces of the
\* format-field syntax, and a shared_data {'a': c} with c a scalar, an opaque
\* object, or object 2: a dict {'b': v} or a list [v]
MaxSegments == 3
Parts == {<<".", "a">>, <<".", "b">>, <<"[", "a", "]">>, <<"[", "b", "]">>,
          <<"[", "0", "]">>, <<"[", "1", "]">>}
Segments == {<<"a">>, <<"x">>, <<"0">>, <<"[">>} \cup Parts
RECURSIVE Names(_)
Names(n) ==
    IF n = 0 THEN {<<>>}
    ELSE Names(n - 1) \cup {s \o t : s \in Names(n - 1), t \in Segments}
Contexts ==
    {<<Dict(<<<<kA, c>>>>), o2>> :
        c \in {Ref(2), PyStr(sB), Obj("m"), None},
        o2 \in Single({PyStr(<<"o", "k">>), Obj("m"), None, Ref(2)})}
    \cup {<<Dict(<<>>)>>}
ReferenceInputs ==
    {[heap |-> h, root |-> sv] :
        h \in Contexts, sv \in {SharedValue(n) : n \in Names(MaxSegments)} \cup {shared}}

\* An invocation node (object 2) whose 'args' is a list (object 3) or an
\* invocation node that builds one (object 4), and whose 'kwargs' is a dict
\* (object 5) or a SharedValue: shared itself, or the name x of that dict
FieldInputs ==
    {[heap |-> <<Dict(sd), Node(f, args, kwargs, None, None, None), List(<<PyStr(sA)>>),
                 Node(Fn("list"), Ref(3), None, None, None, None),
                 Dict(<<<<kA, PyStr(sB)>>>>)>>,
      root |-> Ref(2)] :
        sd \in {<<<<kA, PyStr(sB)>>>>, <<<<PyStr(sX), Ref(5)>>>>},
        f \in {Fn("first"), Fn("kw")}, args \in {None, Ref(3), Ref(4)},
        kwargs \in {None, Ref(5), shared, SharedValue(sX)}}

\* The state in which the caller has built the tree and the shared_data of i
Built(i) ==
    /\ heap = i.heap
    /\ root = i.root
    /\ input = i.heap

Init ==
    /\ \/ \E i \in PlainInputs : Built(i)
       \/ \E i \in NodeInputs : Built(i)
       \/ \E i \in ReferenceInputs : Built(i)
       \/ \E i \in FieldInputs : Built(i)
    /\ result = None
    /\ result1 = None
    /\ skipper = None
    /\ err = "ok"
    /\ calls = <<>>
    /\ memo = <<>>
    /\ pc = "start"

\* The call eval(data, shared_data=shared_data), memo left to its default, and
\* what the caller sees of it
Call(data) ==
    \E r \in {eval(data, SharedData, [heap |-> heap, calls |-> calls, memo |-> <<>>], 1)} :
        /\ heap' = r.heap
        /\ calls' = r.calls
        /\ memo' = r.memo
        /\ err' = r.err
        /\ result' = r.val

\* result = calldict.eval(data, shared_data=shared_data)
Eval ==
    /\ pc = "start"
    /\ Call(root)
    /\ result1' = result'
    /\ pc' = "evaluated"
    /\ UNCHANGED <<root, input, skipper>>

\* The parameters of eval
EvalParameters == {"data", "shared_data", "sharedData", "memo"}

\* calldict.eval(data, shared_data=shared_data, skipper=lambda o, k: k == key):
\* Python binds the arguments to the parameters before the body runs
EvalSkipper ==
    /\ pc = "start"
    /\ \E key \in {kA, kB} : skipper' = key
    /\ IF "skipper" \in EvalParameters
       THEN Call(root) /\ result1' = result'
       ELSE /\ err' = "TypeError"
            /\ UNCHANGED <<heap, calls, memo, result, result1>>
    /\ pc' = "evaluated"
    /\ UNCHANGED <<root, input>>

\* Between two passes the caller binds a name a reference was waiting for:
\* shared_data['x'] = 'b'
Bind ==
    /\ pc = "evaluated"
    /\ err = "ok"
    /\ IsSharedValue(result)
    /\ heap' = SetItem(heap, Val(SharedData), PyStr(sX), PyStr(sB))
    /\ pc' = "rebound"
    /\ UNCHANGED <<root, result, err, calls, memo, input, result1, skipper>>

\* A later pass over what the first returned:
\* calldict.eval(result, shared_data=shared_data)
EvalAgain ==
    /\ pc \in {"evaluated", "rebound"}
    /\ err = "ok"
    /\ Call(result)
    /\ pc' = "done"
    /\ UNCHANGED <<root, input, result1, skipper>>

\* result = calldict.eval(data, shared_data=shared_data, memo={id(node): node}),
\* node a dict or a list of the tree, which the caller wants left as it is
EvalMemo ==
    /\ pc = "start"
    /\ Tag(root) = "ref"
    /\ \E n \in 2..Len(heap) :
        \E r \in {eval(root, SharedData,
                       [heap |-> heap, calls |-> calls, memo |-> MemoSet(<<>>, n, Ref(n))],
                       1)} :
            /\ heap' = r.heap
            /\ calls' = r.calls
            /\ memo' = r.memo
            /\ err' = r.err
            /\ result' = r.val
    /\ result1' = result'
    /\ pc' = "memoized"
    /\ UNCHANGED <<root, input, skipper>>

Next == Eval \/ EvalSkipper \/ Bind \/ EvalAgain \/ EvalMemo

Spec == Init /\ [][Next]_vars

----------------------------------------------------------------------------
(* What the claims speak of *)

\* The first call was eval(root, shared_data=shared_data) and it has returned
Returned == pc = "evaluated" /\ skipper = None /\ err = "ok"

\* The objects of the tree the caller built (object 1 is shared_data)
Nodes == 2..Len(input)
IsNode(v) == Tag(v) = "ref" /\ Val(v) \in Nodes
Invocations == {n \in Nodes : is_callable(input, Ref(n))}
PlainNodes == Nodes \ Invocations

\* An invocation node that eval executes (its 'evaluate' is absent or true)
Executed(n) ==
    /\ n \in Invocations
    /\ Truthy(input, DictGetDefault(input[n][2], kEvaluate, PyBool(TRUE)))

\* The positions of a plain dict or list p: its keys, or its indices
Positions(p) == {ItemsOf(input, Ref(p))[i][1] : i \in DOMAIN input[p][2]}
\* The child of p at position k, in the tree and in the output of p
ChildAt(h, c, k) ==
    IF IsDict(h, c) THEN DictGet(Items(h, c), k) ELSE Items(h, c)[Val(k) + 1]
\* How many positions of the tree hold object n (the root is one)
Occurrences(n) ==
    Cardinality({<<p, i>> \in Nodes \X (1..5) :
                    i \in DOMAIN input[p][2]
                    /\ ItemsOf(input, Ref(p))[i][2] = Ref(n)})
    + (IF root = Ref(n) THEN 1 ELSE 0)
\* How many times eval called the callable of invocation node n
Called(n) == Cardinality({i \in DOMAIN calls : calls[i].node = n})

----------------------------------------------------------------------------
\* C1 (ordering): when eval returns for a plain dict of two children, one an
\* invocation node that binds the name x with 'returns' and the other the
\* SharedValue x, in either key order, the output holds at the key of the
\* SharedValue what the invocation returned.
OrderingCase(i, j) ==
    /\ root \in {Ref(p) : p \in PlainNodes}
    /\ IsDict(input, root)
    /\ DOMAIN Items(input, root) = {i, j}
    /\ i # j
    /\ IsNode(Items(input, root)[i][2])
    /\ Executed(Val(Items(input, root)[i][2]))
    /\ DictGetDefault(Items(input, Items(input, root)[i][2]), kReturns, None)
            \in {PyStr(sX), SharedValue(sX)}
    /\ Items(input, root)[j][2] = SharedValue(sX)

C1_Ordering ==
    Returned =>
        \A i, j \in 1..2 :
            OrderingCase(i, j) =>
                LET n == Val(Items(input, root)[i][2])
                    atRef == ChildAt(heap, result, Items(input, root)[j][1])
                IN  /\ atRef = ChildAt(heap, result, Items(input, root)[i][1])
                    /\ \E c \in DOMAIN calls :
                        /\ calls[c].node = n
                        /\ calls[c].ret = atRef

\* The SharedValue comes first in the dict and is still given the result
C1_Witness ==
    /\ Returned
    /\ OrderingCase(2, 1)
    /\ ~HasKey(input[1][2], PyStr(sX))
    /\ Tag(ChildAt(heap, result, kA)) = "ref"
    /\ ChildAt(heap, result, kA) = ChildAt(heap, result, kB)

----------------------------------------------------------------------------
\* C2 (structural sharing), as the claim states it: when eval returns, the
\* outputs at any two positions that hold the same node object (a plain
\* container or an invocation node) are the same object, and every invocation
\* node inside a node object that occurs twice was called exactly once.
Holder(p) == p \in PlainNodes /\ p \in DOMAIN memo
OutputAt(p, k) == ChildAt(heap, memo[p], k)
SharedPositions(n) ==
    {<<p, k>> \in {<<q, l>> : q \in PlainNodes, l \in UNION {Positions(r) : r \in PlainNodes}} :
        /\ Holder(p)
        /\ k \in Positions(p)
        /\ ChildAt(input, Ref(p), k) = Ref(n)}
Inside(n) ==
    IF n \in Invocations THEN {n}
    ELSE {m \in Invocations : \E k \in Positions(n) : ChildAt(input, Ref(n), k) = Ref(m)}

----------------------------------------------------------------------------
\* C3 (cycle safety): for a tree with a node that contains itself, through
\* plain dicts and lists or through the 'func', 'args' or 'kwargs' of an
\* invocation node, eval ends without RecursionError, and a plain container
\* met again inside itself evaluates to its output container, the one in
\* progress.
Kids(n) ==
    {Val(input[n][2][i][2]) : i \in {j \in DOMAIN input[n][2] :
        input[n][1] = "dict" /\ IsNode(input[n][2][j][2])}}
    \cup {Val(input[n][2][i]) : i \in {j \in DOMAIN input[n][2] :
        input[n][1] = "list" /\ IsNode(input[n][2][j])}}
RECURSIVE Closure(_, _)
Closure(ns, k) ==
    IF k = 0 THEN ns ELSE Closure(ns \cup UNION {Kids(n) : n \in ns}, k - 1)
Descendants(n) == Closure(Kids(n), Len(input))
Cyclic(n) == n \in Descendants(n)
InTree(n) == root = Ref(n) \/ (IsNode(root) /\ n \in Descendants(Val(root)))

C3_CycleSafety ==
    (pc = "evaluated" /\ skipper = None /\ \E n \in Nodes : Cyclic(n) /\ InTree(n)) =>
        /\ err # "RecursionError"
        /\ err = "ok" =>
            \A n \in PlainNodes :
                Cyclic(n) => \A x \in SharedPositions(n) : OutputAt(x[1], x[2]) = memo[n]

----------------------------------------------------------------------------
\* C4 (deferred evaluation): eval of an invocation node whose 'evaluate' is
\* false returns a new dict with the keys of the node but 'evaluate', each with
\* the value it has in the node; no callable is called and shared_data is left
\* as it was.  A second eval, of that dict, calls the callable of the node, and
\* when it returns, it returns what the callable returned.
Deferred(v) ==
    /\ IsNode(v)
    /\ Val(v) \in Invocations
    /\ ~Executed(Val(v))

C4_Deferred ==
    /\ (pc = "evaluated" /\ skipper = None /\ Deferred(root)) =>
        /\ err = "ok"
        /\ Tag(result) = "ref"
        /\ Val(result) \notin DOMAIN input
        /\ IsDict(heap, result)
        /\ Keys(Items(heap, result)) = Keys(Items(input, root)) \ {kEvaluate}
        /\ \A k \in Keys(Items(heap, result)) :
                DictGet(Items(heap, result), k) = DictGet(Items(input, root), k)
        /\ calls = <<>>
        /\ heap[1] = input[1]
    /\ (pc = "done" /\ Deferred(root) /\ err = "ok") =>
        /\ calls # <<>>
        /\ calls[Len(calls)].node = Val(result1)
        /\ calls[Len(calls)].func = DictGet(Items(input, root), kFunc)
        /\ \/ result = calls[Len(calls)].ret
           \/ IsSharedValue(calls[Len(calls)].ret)

\* The second eval of a deferred node with a nested invocation node in 'args'
\* has called both callables and returned what the outer one returned
C4_Witness ==
    /\ pc = "done"
    /\ Deferred(root)
    /\ err = "ok"
    /\ Len(calls) = 2
    /\ calls[2].node = Val(result1)
    /\ result = calls[2].ret
    /\ HasKey(Items(heap, result1), kReturns)
    /\ ~HasKey(Items(heap, result1), kEvaluate)

----------------------------------------------------------------------------
\* C5 (result binding): when eval returns for an executed invocation node that
\* has 'returns', every target, a name or a SharedValue, plain ('x') or a
\* path ('x.a'), resolves against shared_data to the result.
TargetName(t) == IF IsSharedValue(t) THEN NameOf(t) ELSE t

C5_ResultBinding ==
    (Returned /\ IsNode(root) /\ Val(root) \in Invocations /\ Executed(Val(root))
        /\ HasKey(Items(input, root), kReturns)) =>
        \A t \in {Targets(input, DictGet(Items(input, root), kReturns))[i] :
                    i \in DOMAIN Targets(input, DictGet(Items(input, root), kReturns))} :
            /\ get_field(heap, TargetName(t), SharedData).err = "ok"
            /\ get_field(heap, TargetName(t), SharedData).val = result

----------------------------------------------------------------------------
\* C6 (skip predicate): eval called with a predicate skipper(container, key)
\* returns; the child of the root under the key the predicate matches is in
\* the output as it is in the tree, and no invocation node that occurs only
\* inside it was called.
C6_Skipper ==
    (pc = "evaluated" /\ skipper # None /\ IsNode(root) /\ Val(root) \in PlainNodes
        /\ IsDict(input, root)) =>
        /\ err = "ok"
        /\ IsDict(heap, result)
        /\ ChildAt(heap, result, skipper) = ChildAt(input, root, skipper)
        /\ \A m \in Invocations :
            (ChildAt(input, root, skipper) = Ref(m) /\ Occurrences(m) = 1) => Called(m) = 0

----------------------------------------------------------------------------
\* C7 (keyword passthrough): every call eval makes for a node without 'kwargs'
\* passes as keyword arguments the keys of the node outside the reserved ones;
\* for a node with 'kwargs' it passes the keys of that dict.
Reserved == {kFunc, kArgs, kKwargs, kReturns, kEvaluate, PyStr(<<"s", "k", "i", "p", "p", "e", "r">>)}

C7_KeywordPassthrough ==
    (pc = "evaluated" /\ skipper = None) =>
        \A i \in DOMAIN calls :
            LET node == input[calls[i].node][2]
            IN  IF HasKey(node, kKwargs)
                THEN Keys(calls[i].kwargs) = Keys(Items(input, DictGet(node, kKwargs)))
                ELSE Keys(calls[i].kwargs) = Keys(node) \ Reserved

----------------------------------------------------------------------------
\* C8 (strict reference failure): eval of a SharedValue whose name has a part
\* that shared_data lacks, an attribute or a key or index, raises the error
\* of the lookup that failed.
Lookup == get_field(input, NameOf(root), SharedData)
\* A name of a bare first part and then attributes and indices
RECURSIVE Proper(_)
Proper(name) ==
    \/ name \in {<<"a">>, <<"x">>}
    \/ \E p \in Parts :
        /\ Len(name) > Len(p)
        /\ SubSeq(name, Len(name) - Len(p) + 1, Len(name)) = p
        /\ Proper(SubSeq(name, 1, Len(name) - Len(p)))
Absent ==
    /\ root # shared
    /\ Proper(Val(root))
    /\ Lookup.err \in {"KeyError", "IndexError", "AttributeError"}

C8_StrictReference ==
    (pc = "evaluated" /\ skipper = None /\ IsSharedValue(root) /\ Absent) =>
        err = Lookup.err

----------------------------------------------------------------------------
\* C9 (tolerant reference): eval of a SharedValue whose name has a part that
\* shared_data lacks, an attribute or a key or index, raises nothing and
\* returns the SharedValue; once shared_data has the name, a later eval of
\* what was returned gives the value bound to it.
C9_TolerantReference ==
    /\ (pc = "evaluated" /\ skipper = None /\ IsSharedValue(root) /\ Absent) =>
        /\ err = "ok"
        /\ result = root
    /\ (pc = "done" /\ root = SharedValue(sX) /\ result1 = root
            /\ ~HasKey(input[1][2], PyStr(sX)) /\ HasKey(heap[1][2], PyStr(sX))) =>
        /\ err = "ok"
        /\ result = DictGet(heap[1][2], PyStr(sX))

----------------------------------------------------------------------------
\* C10 (resolution is the path walk): eval of a SharedValue gives what the walk
\* of its name gives, left to right from shared_data itself: shared_data for
\* no name, getattr for a bare part and [] for a bracketed part.
PathWalk(h, ref, context) ==
    IF ref = shared \/ Val(ref) = <<>> THEN Ok(context)
    ELSE FieldWalk(h, context, IF Head(Val(ref)) = "[" THEN Val(ref)
                               ELSE <<".">> \o Val(ref))

C10_ResolveIsPathWalk ==
    (pc = "evaluated" /\ skipper = None /\ IsSharedValue(root)
        /\ PathWalk(input, root, SharedData).err = "ok") =>
        /\ err = "ok"
        /\ result = PathWalk(input, root, SharedData).val

----------------------------------------------------------------------------
\* C11 (invocation classification): a dict whose 'func' is plain data (a
\* string) is no invocation node: is_callable is false of it, and eval returns
\* for it a dict of the same keys without raising.
PlainFunc(v) ==
    /\ IsNode(v)
    /\ IsDict(input, v)
    /\ HasKey(Items(input, v), kFunc)
    /\ Tag(DictGet(Items(input, v), kFunc)) = "str"

C11_Classification ==
    (pc = "evaluated" /\ skipper = None /\ PlainFunc(root)) =>
        /\ ~is_callable(input, root)
        /\ err = "ok"
        /\ IsDict(heap, result)
        /\ Keys(Items(heap, result)) = Keys(Items(input, root))

----------------------------------------------------------------------------
\* C12 (failure semantics): when a callable eval called has raised, eval has
\* raised the same error, the call that raised is the last one eval made, and
\* shared_data is what the caller gave with, on top of it and in their order,
\* the 'returns' bindings of the calls that returned before: the bindings of
\* the completed invocations stay and the failed one has bound nothing.
RECURSIVE BindAll(_, _, _)
BindAll(items, targets, r) ==
    IF targets = <<>> THEN items
    ELSE BindAll(DictSet(items, TargetName(Head(targets)), r), Tail(targets), r)

\* The items of shared_data after the first i calls returned
RECURSIVE Bound(_)
Bound(i) ==
    IF i = 0 THEN input[1][2]
    ELSE LET node == input[calls[i].node][2]
             ret == calls[i].ret
             r == IF IsSharedValue(ret) THEN DictGet(Bound(i - 1), NameOf(ret)) ELSE ret
         IN  IF HasKey(node, kReturns)
             THEN BindAll(Bound(i - 1), Targets(input, DictGet(node, kReturns)), r)
             ELSE Bound(i - 1)

CallableRaised == \E i \in DOMAIN calls : calls[i].err # "ok"

C12_FailureSemantics ==
    (pc = "evaluated" /\ skipper = None /\ CallableRaised) =>
        /\ \A i \in DOMAIN calls : calls[i].err # "ok" <=> i = Len(calls)
        /\ err = calls[Len(calls)].err
        /\ heap[1][2] = Bound(Len(calls) - 1)

\* A nested invocation returned and bound x, then the callable of the root,
\* which has 'returns' too, raised: shared_data holds the first binding only
C12_Witness ==
    /\ pc = "evaluated"
    /\ skipper = None
    /\ Len(calls) = 2
    /\ calls[1].err = "ok"
    /\ calls[2].err = "Exception"
    /\ err = "Exception"
    /\ HasKey(input[calls[1].node][2], kReturns)
    /\ DictGetDefault(input[calls[2].node][2], kReturns, None) = SharedValue(<<"x", ".", "a">>)
    /\ input[1][2] = <<>>
    /\ heap[1][2] = <<<<PyStr(sX), calls[1].ret>>>>

----------------------------------------------------------------------------
\* C13 (frame condition): a call of eval leaves every dict and list that
\* existed before it as it was, the tree it was given included, removes
\* nothing from shared_data, and adds or overwrites in shared_data only keys
\* that the 'returns' of an invocation node it executed names.
EvalStep == pc' \in {"evaluated", "done", "memoized"}

\* The keys the invocation nodes executed in this step name in 'returns'
NamedByReturns ==
    UNION {{TargetName(Targets(heap, DictGet(heap[calls'[i].node][2], kReturns))[j]) :
                j \in DOMAIN Targets(heap, DictGet(heap[calls'[i].node][2], kReturns))} :
           i \in {c \in (Len(calls) + 1)..Len(calls') :
                    HasKey(heap[calls'[c].node][2], kReturns)}}

FrameStep ==
    EvalStep =>
        /\ Len(heap') >= Len(heap)
        /\ \A n \in 2..Len(heap) : heap'[n] = heap[n]
        /\ Keys(heap[1][2]) \subseteq Keys(heap'[1][2])
        /\ \A k \in Keys(heap'[1][2]) :
            (~HasKey(heap[1][2], k) \/ DictGet(heap'[1][2], k) # DictGet(heap[1][2], k))
                => k \in NamedByReturns

C13_Frame == [][FrameStep]_vars

\* eval has bound a new name in a shared_data that held another, which kept
\* its value, and the tree is as the caller built it
C13_Witness ==
    /\ pc = "evaluated"
    /\ skipper = None
    /\ err = "ok"
    /\ calls # <<>>
    /\ \A n \in Nodes : heap[n] = input[n]
    /\ input[1][2] = <<<<PyStr(sX), PyStr(sB)>>>>
    /\ Keys(heap[1][2]) = {PyStr(sX), PyStr(<<"x", ".", "a">>)}
    /\ DictGet(heap[1][2], PyStr(sX)) = PyStr(sB)

----------------------------------------------------------------------------
\* C14 (reused invocation): when eval returns for a plain dict whose two keys
\* hold the same invocation node object, one that is executed and occurs
\* nowhere else, the callable of that node was called twice, once for each
\* occurrence.
Reused(m) ==
    /\ root \in {Ref(p) : p \in PlainNodes}
    /\ IsDict(input, root)
    /\ Keys(Items(input, root)) = {kA, kB}
    /\ ChildAt(input, root, kA) = Ref(m)
    /\ ChildAt(input, root, kB) = Ref(m)
    /\ Executed(m)
    /\ Occurrences(m) = 2

C14_ReusedInvocation ==
    Returned => \A m \in Invocations : Reused(m) => Called(m) = 2

\* The node builds a list: the two calls gave two lists, one at each key
C14_Witness ==
    /\ Returned
    /\ \E m \in Invocations :
        /\ Reused(m)
        /\ Called(m) = 2
        /\ calls[1].func = Fn("list")
        /\ Tag(ChildAt(heap, result, kA)) = "ref"
        /\ ChildAt(heap, result, kA) # ChildAt(heap, result, kB)

----------------------------------------------------------------------------
\* C15 (argument fields are nodes): when eval ends for an executed invocation
\* node, if its 'args' is an invocation node, that node was called and the
\* elements of the list it returned are the positional arguments of the call;
\* if its 'kwargs' is a SharedValue of a dict of shared_data, or shared itself,
\* the items of that dict are the keyword arguments of the call.
FieldOf(k) == DictGetDefault(Items(input, root), k, None)
CallsOf(n) == {i \in DOMAIN calls : calls[i].node = n}

\* The dict a SharedValue given as 'kwargs' stands for
KwargsDict(sv) ==
    IF sv = shared THEN SharedData ELSE get_field(input, NameOf(sv), SharedData).val

ArgsIsNode == IsNode(FieldOf(kArgs)) /\ Executed(Val(FieldOf(kArgs)))
KwargsIsReference ==
    /\ IsSharedValue(FieldOf(kKwargs))
    /\ IsDict(input, KwargsDict(FieldOf(kKwargs)))
    /\ \A k \in Keys(Items(input, KwargsDict(FieldOf(kKwargs)))) : Tag(k) = "str"

C15_ArgumentFields ==
    (pc = "evaluated" /\ skipper = None /\ IsNode(root) /\ Executed(Val(root))
        /\ Tag(FieldOf(kFunc)) = "fn") =>
        /\ ArgsIsNode =>
            \E i \in CallsOf(Val(FieldOf(kArgs))) :
                calls[i].err = "ok" =>
                    /\ IsList(heap, calls[i].ret)
                    /\ \E j \in CallsOf(Val(root)) :
                        calls[j].args = Items(heap, calls[i].ret)
        /\ KwargsIsReference =>
            \E j \in CallsOf(Val(root)) :
                calls[j].kwargs = Items(input, KwargsDict(FieldOf(kKwargs)))

----------------------------------------------------------------------------
\* C16 (caller-supplied memo): when eval ends after the caller gave it a memo
\* that maps a dict or list of the tree to a value (here the node itself),
\* every occurrence of the node evaluates to that value, no invocation inside
\* the node was called, and an invocation node that is a child of the root
\* outside the given node was called as usual.
Given(n) == pc = "memoized" /\ n \in DOMAIN memo /\ memo[n] = Ref(n)

C16_CallerMemo ==
    \A n \in Nodes :
        Given(n) =>
            /\ root = Ref(n) => (err = "ok" /\ result = Ref(n))
            /\ err = "ok" => \A x \in SharedPositions(n) : OutputAt(x[1], x[2]) = Ref(n)
            /\ n \in Invocations => Called(n) = 0
            /\ \A m \in Inside(n) : Occurrences(m) = 1 => Called(m) = 0
            /\ (err = "ok" /\ root # Ref(n) /\ Val(root) \in PlainNodes) =>
                \A m \in Invocations \ ({n} \cup Inside(n)) :
                    (Executed(m) /\ Occurrences(m) = 1
                        /\ \E k \in Positions(Val(root)) : ChildAt(input, root, k) = Ref(m))
                    => Called(m) = 1

====
